---------------------------- MODULE Spec2Model ----------------------------
(***************************************************************************)
(* Risk-based motor insurance premium calculation.                         *)
(*                                                                         *)
(* Units.  The Python code computes in binary floating point; the model    *)
(* computes the same expressions in exact decimal fixed point:             *)
(*   - probabilities are integers in units of 1e-5 (0.155 is 15500);       *)
(*     a probability rounded to 4 decimals is in units of 1e-4;            *)
(*   - risk percent is in units of 1e-3 percent (54.36 % is 54360);        *)
(*   - base premiums and sums insured are whole rupees, every other        *)
(*     amount of money is in cents (1/100 rupee);                          *)
(*   - round(x, n) gives the nearest value; exactly halfway between two    *)
(*     values the binary float lies on either side of the decimal tie, so  *)
(*     both neighbours are possible results.                               *)
(* None is the empty tuple and a present value x is the 1-tuple <<x>>.     *)
(***************************************************************************)
EXTENDS Integers, Sequences, FiniteSets, TLC

VARIABLES
    priceArgs,      \* arguments of a direct premium_rules.calculate_final_premium call
    priceOut,       \* the dict it returned (None before it returns)
    renForm,        \* renewal_app: the submitted form and what the model will predict
    renOut,         \* renewal_app: the response of /predict (kind "none" before it)
    app,            \* the running program: "direct" (a caller of calculate_risk),
                    \* "flask" (app_flask.py), "streamlit" (app.py) or "none"
    pc,             \* position of the request in progress ("idle" between requests)
    form,           \* app_flask: request.form of the request (None otherwise)
    policy,         \* the dict handed to calculate_risk (None before it is built)
    df,             \* calculate_risk: the one-row DataFrame (None before it exists)
    ebm_prob,       \* calculate_risk: the primary probability, unrounded
    result,         \* calculate_risk: the result dict under construction / returned
    exc,            \* the exception that left calculate_risk (None if none)
    ebmCalls,       \* calls of ebm_model.predict_proba in this evaluation
    ngbCalls,       \* calls of ngb_model.pred_dist in this evaluation
    priceCalls,     \* calls of calculate_final_premium in this request
    response,       \* what the caller of the handler / of calculate_risk received
    session         \* app.py: st.session_state (result, blacklisted)

priceVars == <<priceArgs, priceOut>>
renVars == <<renForm, renOut>>
callVars == <<df, ebm_prob, result, exc, ebmCalls, ngbCalls, priceCalls>>
riskVars == <<app, pc, form, policy, df, ebm_prob, result, exc, ebmCalls, ngbCalls,
              priceCalls, response, session>>
vars == <<priceArgs, priceOut, renForm, renOut, app, pc, form, policy, df, ebm_prob,
          result, exc, ebmCalls, ngbCalls, priceCalls, response, session>>

None == <<>>
Some(x) == <<x>>
Max(a, b) == IF a >= b THEN a ELSE b
Min(a, b) == IF a <= b THEN a ELSE b

\* Each program is a process of its own; while one of them is checked the
\* others have not been started.
PriceIdle ==
    /\ priceArgs = [base_premium |-> 0, risk_percent |-> 0,
                    ncb_percentage |-> 0, other_discount |-> 0]
    /\ priceOut = None

RenewalIdle ==
    /\ renForm = [sum_insured |-> None, ncb_rate |-> None, numeric |-> TRUE,
                  predicted |-> 0]
    /\ renOut = [kind |-> "none"]

NoSession == [result |-> None, blacklisted |-> FALSE]

RiskIdle ==
    /\ app = "none"
    /\ pc = "idle"
    /\ form = None
    /\ policy = None
    /\ df = None
    /\ ebm_prob = None
    /\ result = None
    /\ exc = None
    /\ ebmCalls = 0
    /\ ngbCalls = 0
    /\ priceCalls = 0
    /\ response = [kind |-> "none"]
    /\ session = NoSession

\* Exact n * num / den as whole part w and remainder f (in units of 1/den),
\* split so that no intermediate product leaves 32 bits.
MulRate(n, num, den) ==
    LET q == n \div den
        r == n % den
    IN  [w |-> q * num + ((r * num) \div den), f |-> (r * num) % den]

\* round(w + f/den): the set of results round() can give, the nearest integer
\* and, at an exact decimal tie, either neighbour.
Round(w, f, den) ==
    IF 2 * f > den THEN {w + 1}
    ELSE IF 2 * f = den THEN {w, w + 1}
    ELSE {w}

\* round(x, k) of an integer x given in units `step` times finer than the result.
RoundUnits(x, step) == Round(x \div step, x % step, step)

-----------------------------------------------------------------------------
(* premium_rules.py *)

ADMIN_FEE_RATE_E4 == 291      \* admin_fee_rate = 0.0291, in 1/10000
POLICY_FEE_CENTS == 20000     \* policy_fee = 200.0
VAT_RATE_PCT == 18            \* vat_rate = 0.18, in 1/100

get_risk_loading_percent_Swapped(risk_percent) ==
    IF risk_percent < 15000 THEN 0
    ELSE IF risk_percent < 25000 THEN 25
    ELSE IF risk_percent < 40000 THEN 10
    ELSE 50

get_risk_loading_percent_Shifted(risk_percent) ==
    IF risk_percent <= 15000 THEN 0
    ELSE IF risk_percent <= 25000 THEN 10
    ELSE IF risk_percent <= 40000 THEN 25
    ELSE 50

\* Loading in percent (the code returns the fraction 0.00 / 0.10 / 0.25 / 0.50).
get_risk_loading_percent(risk_percent) ==
    IF risk_percent < 15000 THEN 0
    ELSE IF risk_percent < 25000 THEN 10
    ELSE IF risk_percent < 40000 THEN 25
    ELSE 50

NetPremium_NoFloor(gross, total_discount) == gross - total_discount

\* net_premium = max((base_premium + loading_amount) - total_discount, 0)
NetPremium(gross, total_discount) == Max(gross - total_discount, 0)

PremiumBeforeVat_RoundedFee(net_premium, admin_fee) ==
    [w |-> net_premium + admin_fee.w + (IF 2 * admin_fee.f >= 10000 THEN 1 ELSE 0)
             + POLICY_FEE_CENTS,
     f |-> 0]

\* premium_before_vat = net_premium + admin_fee + policy_fee (f in 1e-4 cent)
PremiumBeforeVat(net_premium, admin_fee) ==
    [w |-> net_premium + admin_fee.w + POLICY_FEE_CENTS, f |-> admin_fee.f]

\* vat_amount = premium_before_vat * vat_rate (f in 1e-6 cent)
VatAmount(pbv) ==
    LET whole == MulRate(pbv.w, VAT_RATE_PCT, 100)
        num   == whole.f * 10000 + pbv.f * VAT_RATE_PCT
    IN  [w |-> whole.w + (num \div 1000000), f |-> num % 1000000]

\* total_payable = premium_before_vat + vat_amount (f in 1e-6 cent)
TotalPayable(pbv, vat) ==
    LET num == pbv.f * 100 + vat.f
    IN  [w |-> pbv.w + vat.w + (num \div 1000000), f |-> num % 1000000]

\* The set of dicts the call can return (one dict unless a rounding meets a tie).
\* base_premium in rupees, risk_percent in 1e-3 percent, ncb_percentage in
\* percent, other_discount in cents; the returned amounts are in cents and the
\* returned risk_percent in 1e-2 percent.
calculate_final_premium(base_premium, risk_percent, ncb_percentage, other_discount) ==
    LET loading_pct    == get_risk_loading_percent(risk_percent)
        loading_amount == base_premium * loading_pct
        ncb_discount   == base_premium * ncb_percentage
        total_discount == ncb_discount + other_discount
        net_premium    == NetPremium(base_premium * 100 + loading_amount, total_discount)
        admin_fee      == MulRate(net_premium, ADMIN_FEE_RATE_E4, 10000)
        pbv            == PremiumBeforeVat(net_premium, admin_fee)
        vat_amount     == VatAmount(pbv)
        total_payable  == TotalPayable(pbv, vat_amount)
    IN  [base_premium         : {base_premium * 100},
         risk_percent         : RoundUnits(risk_percent, 10),
         risk_loading_percent : {loading_pct},
         risk_loading_amount  : {loading_amount},
         ncb_percentage       : {ncb_percentage},
         ncb_discount         : {ncb_discount},
         net_premium          : {net_premium},
         admin_fee            : Round(admin_fee.w, admin_fee.f, 10000),
         policy_fee           : {POLICY_FEE_CENTS},
         vat_amount           : Round(vat_amount.w, vat_amount.f, 1000000),
         total_payable        : Round(total_payable.w, total_payable.f, 1000000)]

-----------------------------------------------------------------------------
(* renewal_premium_rules.py (imported as premium_rules by the renewal engine). *)
(* Sums insured are multiples of 1000 rupees, so that the base premium         *)
(* sum_insured x 0.028 is a whole number of rupees; rates are in 1/1000.       *)

get_rebate_rate(sum_insured) ==
    IF 3100000 <= sum_insured /\ sum_insured <= 4999999 THEN 100
    ELSE IF 5000000 <= sum_insured /\ sum_insured <= 6999999 THEN 125
    ELSE IF 7000000 <= sum_insured /\ sum_insured <= 7999999 THEN 150
    ELSE IF sum_insured >= 8000000 THEN 200
    ELSE 0

\* sum_insured * base_rate with base_rate = 0.028, in rupees
renewal_calculate_base_premium(sum_insured) == (sum_insured \div 1000) * 28

risk_loading(expected_claim) ==
    IF expected_claim < 50000 THEN 0
    ELSE IF expected_claim < 200000 THEN 50
    ELSE IF expected_claim < 500000 THEN 100
    ELSE IF expected_claim < 1000000 THEN 200
    ELSE 300

\* net_premium = base_premium - rebate - ncb_discount + loading, in 1/10 cent
\* (rupees times a rate in 1/1000).
RenewalNetPremium(base_premium, rebate_rate, ncb_rate, loading_rate) ==
    base_premium * 1000 - base_premium * rebate_rate - base_premium * ncb_rate
        + base_premium * loading_rate

\* The set of dicts the call can return; ncb_rate in 1/1000, amounts in cents.
renewal_calculate_final_premium(sum_insured, expected_claim, ncb_rate) ==
    LET base_premium == renewal_calculate_base_premium(sum_insured)
        rebate_rate  == get_rebate_rate(sum_insured)
        loading_rate == risk_loading(expected_claim)
        net_premium  == RenewalNetPremium(base_premium, rebate_rate, ncb_rate, loading_rate)
        \* admin_fee = net_premium * 0.0291: whole cents and 1e-5 cent
        admin_fee    == MulRate(net_premium, 291, 100000)
        \* net_premium + admin_fee + policy_fee: whole cents and 1e-5 cent
        sumNum       == (net_premium % 10) * 10000 + admin_fee.f
        before_vat   == [w |-> (net_premium \div 10) + admin_fee.w + 20000
                                 + (sumNum \div 100000),
                         f |-> sumNum % 100000]
        \* vat = 0.18 * (net_premium + admin_fee + policy_fee): 1e-7 cent
        vatWhole     == MulRate(before_vat.w, 18, 100)
        vatNum       == vatWhole.f * 100000 + before_vat.f * 18
        vat          == [w |-> vatWhole.w + (vatNum \div 10000000),
                         f |-> vatNum % 10000000]
        totNum       == before_vat.f * 100 + vat.f
        total        == [w |-> before_vat.w + vat.w + (totNum \div 10000000),
                         f |-> totNum % 10000000]
    IN  [base_premium  : {base_premium * 100},
         rebate        : RoundUnits(base_premium * rebate_rate, 10),
         risk_loading  : RoundUnits(base_premium * loading_rate, 10),
         ncb_discount  : RoundUnits(base_premium * ncb_rate, 10),
         admin_fee     : Round(admin_fee.w, admin_fee.f, 100000),
         policy_fee    : {20000},
         vat           : Round(vat.w, vat.f, 10000000),
         total_premium : Round(total.w, total.f, 10000000)]

-----------------------------------------------------------------------------
(* renewal_risk_engine.py *)

\* round(min(max(expected_claim, 0) / 1_500_000, 1.0) * 100, 2), in 1e-2
risk_score_from_claim(expected_claim) ==
    LET clipped == Min(Max(expected_claim, 0), 1500000)
    IN  Round(clipped \div 150, clipped % 150, 150)

\* RenewalRiskEngine.evaluate_policy once the model has predicted expected_claim
evaluate_policy(expected_claim, sum_insured, ncb_rate) ==
    [kind                  : {"result"},
     expected_claim_amount : {expected_claim * 100},
     risk_score            : risk_score_from_claim(expected_claim),
     premium_breakdown     : renewal_calculate_final_premium(sum_insured,
                                 expected_claim, ncb_rate)]

-----------------------------------------------------------------------------
(* renewal_app.py: POST /predict *)

SumInsureds       == {-1000000, 0, 1000000, 3100000, 5000000, 7000000, 8000000}
NcbRates          == {0, 200, 700, 1000, 2000}
ExpectedClaims    == {-5000, 0, 49999, 50000, 200000, 500000, 1000000, 2000000}

\* A form field is None (absent or empty) or a number; `numeric` is FALSE
\* when a submitted field is text float() rejects.
RenewalForms ==
    [sum_insured : {None} \cup {Some(x) : x \in SumInsureds},
     ncb_rate    : {None} \cup {Some(x) : x \in NcbRates},
     numeric     : BOOLEAN,
     predicted   : ExpectedClaims]

\* float(request.form.get(name, 0) or 0)
FormFloat(field) == IF field = None THEN 0 ELSE field[1]

RenewalInit ==
    /\ renForm \in RenewalForms
    /\ renOut = [kind |-> "none"]
    /\ PriceIdle
    /\ RiskIdle

\* predict() runs to the end: the engine's result is rendered.
RenewalPredict ==
    /\ renOut.kind = "none"
    /\ renForm.numeric
    /\ \E r \in evaluate_policy(renForm.predicted, FormFloat(renForm.sum_insured),
                                FormFloat(renForm.ncb_rate)) :
           renOut' = r
    /\ UNCHANGED <<renForm, priceVars, riskVars>>

\* float() or the model's pred_dist raises; predict() catches nothing.
RenewalPredictRaises ==
    /\ renOut.kind = "none"
    /\ renOut' = [kind |-> "error"]
    /\ UNCHANGED <<renForm, priceVars, riskVars>>

RenewalNext == RenewalPredict \/ RenewalPredictRaises

RenewalSpec == RenewalInit /\ [][RenewalNext]_vars

-----------------------------------------------------------------------------
(* Direct calls of premium_rules.calculate_final_premium on bounded inputs *)

BasePremiums   == {-1000, 0, 1, 15000, 45000, 140825}
RiskPercents   == {0, 10000, 14994, 14999, 15000, 15001, 24999, 25000,
                   39999, 40000, 54360, 100000}
NcbPercentages == {0, 10, 70, 150}
OtherDiscounts == {0, 12345, 5000000, 30000000}

PriceArgs ==
    [base_premium : BasePremiums, risk_percent : RiskPercents,
     ncb_percentage : NcbPercentages, other_discount : OtherDiscounts]

PriceInit ==
    /\ priceArgs \in PriceArgs
    /\ priceOut = None
    /\ RenewalIdle
    /\ RiskIdle

PriceCall ==
    /\ priceOut = None
    /\ \E d \in calculate_final_premium(priceArgs.base_premium,
                   priceArgs.risk_percent, priceArgs.ncb_percentage,
                   priceArgs.other_discount) :
           priceOut' = Some(d)
    /\ UNCHANGED <<priceArgs, renVars, riskVars>>

PriceNext == PriceCall

PriceSpec == PriceInit /\ [][PriceNext]_vars

-----------------------------------------------------------------------------
(* risk_engine.py *)

EBM_ESCALATE_THRESHOLD == 15500    \* 0.155
EBM_HIGH_THRESHOLD == 20000        \* 0.20

\* The columns the primary model was trained on (read from the artifact),
\* limited to the columns the policies of this model carry; "driver_gender"
\* stands for the remaining raw feature columns.
ebm_features ==
    {"driver_age", "vehicle_age_years", "ncb_percentage", "driver_gender",
     "driver_age_band", "vehicle_age_band"}

make_driver_age_band_LowerBin(age) ==
    IF age <= 25 THEN "18_24"
    ELSE IF age <= 35 THEN "25_34"
    ELSE IF age <= 45 THEN "35_44"
    ELSE IF age <= 60 THEN "45_59"
    ELSE "60+"

make_driver_age_band(age) ==
    IF age < 25 THEN "18_24"
    ELSE IF age < 35 THEN "25_34"
    ELSE IF age < 45 THEN "35_44"
    ELSE IF age < 60 THEN "45_59"
    ELSE "60+"

make_vehicle_age_band(v_age) ==
    IF v_age <= 3 THEN "0_3"
    ELSE IF v_age <= 7 THEN "4_7"
    ELSE IF v_age <= 12 THEN "8_12"
    ELSE "13+"

\* pd.DataFrame([policy_dict]): a new one-row frame whose columns are the keys
to_dataframe(policy_dict) == [k \in DOMAIN policy_dict |-> policy_dict[k]]

Raised(message) == [raised |-> TRUE, error |-> message]
Returned(value) == [raised |-> FALSE, value |-> value]

add_engineered_features_NoGuard(d) ==
    Returned([k \in DOMAIN d \cup {"driver_age_band", "vehicle_age_band"} |->
                 IF k = "driver_age_band"
                 THEN (IF "driver_age" \in DOMAIN d
                       THEN make_driver_age_band(d["driver_age"]) ELSE "18_24")
                 ELSE IF k = "vehicle_age_band"
                 THEN (IF "vehicle_age_years" \in DOMAIN d
                       THEN make_vehicle_age_band(d["vehicle_age_years"]) ELSE "0_3")
                 ELSE d[k]])

add_engineered_features(d) ==
    IF "driver_age" \notin DOMAIN d
    THEN Raised("Missing required field: driver_age")
    ELSE IF "vehicle_age_years" \notin DOMAIN d
    THEN Raised("Missing required field: vehicle_age_years")
    ELSE Returned([k \in DOMAIN d \cup {"driver_age_band", "vehicle_age_band"} |->
                      IF k = "driver_age_band"
                      THEN make_driver_age_band(d["driver_age"])
                      ELSE IF k = "vehicle_age_band"
                      THEN make_vehicle_age_band(d["vehicle_age_years"])
                      ELSE d[k]])

prepare_for_ebm(d) ==
    IF ebm_features \ DOMAIN d # {}
    THEN Raised("Missing required EBM features")
    ELSE Returned([k \in ebm_features |-> d[k]])

\* policy.get(key, default)
DictGet(dict, key, default) == IF key \in DOMAIN dict THEN dict[key] ELSE default

RiskLabel_FromRounded(p) ==
    IF 10 * ((p + 5) \div 10) >= EBM_HIGH_THRESHOLD THEN "HIGH"
    ELSE IF 10 * ((p + 5) \div 10) >= EBM_ESCALATE_THRESHOLD THEN "MEDIUM"
    ELSE "LOW"

\* 4) Risk label using EBM
RiskLabel(p) ==
    IF p >= EBM_HIGH_THRESHOLD THEN "HIGH"
    ELSE IF p >= EBM_ESCALATE_THRESHOLD THEN "MEDIUM"
    ELSE "LOW"

Escalate_FromRounded(p) == 10 * ((p + 5) \div 10) >= EBM_ESCALATE_THRESHOLD

Escalate(p) == p >= EBM_ESCALATE_THRESHOLD

\* The values the two models return in this model, in units of 1e-5.
EbmProbs == {0, 10000, 15494, 15495, 15499, 15500, 19999, 20000, 54360}
NgbProbs == {5000, 15499, 18000, 25000, 54360, 90000}

\* round(sqrt(p1 * (1 - p1)), 4) in units of 1e-4, for each p1 the secondary
\* model returns: u with (2u - 1)^2 <= p1 * (100000 - p1) / 25 <= (2u + 1)^2.
Uncertainty ==
    [p1 \in NgbProbs |->
        LET x == MulRate(p1, 100000 - p1, 25)
        IN  {u \in 0..5000 :
                /\ u = 0 \/ (2 * u - 1) * (2 * u - 1) <= x.w
                /\ \/ x.w < (2 * u + 1) * (2 * u + 1)
                   \/ x.w = (2 * u + 1) * (2 * u + 1) /\ x.f = 0}]

\* The result skeleton of calculate_risk (lines 140-156); ebm4 is
\* round(ebm_prob, 4), d the frame with the engineered features.
ResultSkeleton(p, ebm4, d) ==
    [ebm_risk_probability     |-> ebm4,
     risk_label               |-> RiskLabel(p),
     escalate_to_ngboost      |-> Escalate(p),
     ngboost_risk_probability |-> None,
     ngboost_uncertainty      |-> None,
     driver_age_band          |-> d["driver_age_band"],
     vehicle_age_band         |-> d["vehicle_age_band"],
     pricing_model_used       |-> None,
     pricing_probability      |-> None,
     risk_percent_for_pricing |-> None,
     premium_breakdown        |-> None]

PricingProb_AgreementGated(res) ==
    IF res.ngboost_risk_probability # None /\ res.ngboost_risk_probability[1] >= 8000
    THEN Max(res.ebm_risk_probability, res.ngboost_risk_probability[1])
    ELSE res.ebm_risk_probability

\* 6) the probability used for the premium, in units of 1e-4
PricingProb(res) ==
    IF res.ngboost_risk_probability # None
    THEN res.ngboost_risk_probability[1]
    ELSE res.ebm_risk_probability

PricingModelUsed(res) ==
    IF res.ngboost_risk_probability # None THEN "NGBoost" ELSE "EBM"

CR_Derive_InPlace ==
    /\ pc = "cr_derive"
    /\ LET r == add_engineered_features(policy[1])
       IN  IF r.raised
           THEN /\ exc' = Some(r.error)
                /\ pc' = "cr_raised"
                /\ df' = None
                /\ policy' = policy
           ELSE /\ df' = Some(r.value)
                /\ policy' = Some(r.value)
                /\ pc' = "cr_ebm"
                /\ exc' = exc
    /\ UNCHANGED <<app, form, ebm_prob, result, ebmCalls, ngbCalls,
                   priceCalls, response, session, priceVars, renVars>>

\* calculate_risk, steps 1 and 2: the frame and the engineered features
CR_Derive ==
    /\ pc = "cr_derive"
    /\ LET r == add_engineered_features(to_dataframe(policy[1]))
       IN  IF r.raised
           THEN /\ exc' = Some(r.error)
                /\ pc' = "cr_raised"
                /\ df' = None
           ELSE /\ df' = Some(r.value)
                /\ pc' = "cr_ebm"
                /\ exc' = exc
    /\ UNCHANGED <<app, form, policy, ebm_prob, result, ebmCalls, ngbCalls,
                   priceCalls, response, session, priceVars, renVars>>

\* calculate_risk, steps 3 and 4: the primary model's probability, the label,
\* the escalation decision and the result skeleton
CR_ScoreEBM ==
    /\ pc = "cr_ebm"
    /\ LET x == prepare_for_ebm(df[1])
       IN  IF x.raised
           THEN /\ exc' = Some(x.error)
                /\ pc' = "cr_raised"
                /\ UNCHANGED <<ebm_prob, result, ebmCalls>>
           ELSE \E p \in EbmProbs : \E ebm4 \in RoundUnits(p, 10) :
                /\ ebmCalls' = ebmCalls + 1
                /\ ebm_prob' = Some(p)
                /\ result' = Some(ResultSkeleton(p, ebm4, df[1]))
                /\ pc' = IF Escalate(p) THEN "cr_ngb" ELSE "cr_price"
                /\ exc' = exc
    /\ UNCHANGED <<app, form, policy, df, ngbCalls, priceCalls, response, session,
                   priceVars, renVars>>

\* ebm_model.predict_proba raises: nothing in calculate_risk catches it
CR_ScoreEBMRaises ==
    /\ pc = "cr_ebm"
    /\ ~prepare_for_ebm(df[1]).raised
    /\ ebmCalls' = ebmCalls + 1
    /\ exc' = Some("primary model raised")
    /\ pc' = "cr_raised"
    /\ UNCHANGED <<app, form, policy, df, ebm_prob, result, ngbCalls, priceCalls,
                   response, session, priceVars, renVars>>

\* calculate_risk, step 5: the secondary model, only if escalated
CR_ScoreNGB ==
    /\ pc = "cr_ngb"
    /\ \E p1 \in NgbProbs : \E p4 \in RoundUnits(p1, 10) : \E u \in Uncertainty[p1] :
          result' = Some([result[1] EXCEPT !.ngboost_risk_probability = Some(p4),
                                           !.ngboost_uncertainty = Some(u)])
    /\ ngbCalls' = ngbCalls + 1
    /\ pc' = "cr_price"
    /\ UNCHANGED <<app, form, policy, df, ebm_prob, exc, ebmCalls, priceCalls,
                   response, session, priceVars, renVars>>

CR_ScoreNGBRaises_Fallback ==
    /\ pc = "cr_ngb"
    /\ ngbCalls' = ngbCalls + 1
    /\ pc' = "cr_price"
    /\ UNCHANGED <<app, form, policy, df, ebm_prob, result, exc, ebmCalls, priceCalls,
                   response, session, priceVars, renVars>>

\* ngb_model.pred_dist raises
CR_ScoreNGBRaises ==
    /\ pc = "cr_ngb"
    /\ ngbCalls' = ngbCalls + 1
    /\ exc' = Some("secondary model raised")
    /\ result' = None
    /\ pc' = "cr_raised"
    /\ UNCHANGED <<app, form, policy, df, ebm_prob, ebmCalls, priceCalls,
                   response, session, priceVars, renVars>>

CR_Price_Relabel ==
    /\ pc = "cr_price"
    /\ LET res  == result[1]
           prob == PricingProb(res)
           risk_percent_for_pricing == prob * 10
       IN  \E shown \in RoundUnits(risk_percent_for_pricing, 10) :
           \E premium_breakdown \in calculate_final_premium(
                   DictGet(policy[1], "base_premium", 45000),
                   risk_percent_for_pricing,
                   DictGet(policy[1], "ncb_percentage", 0),
                   DictGet(policy[1], "other_discount", 0)) :
              result' = Some([res EXCEPT
                              !.risk_label = RiskLabel(prob * 10),
                              !.pricing_model_used = Some(PricingModelUsed(res)),
                              !.pricing_probability = Some(prob),
                              !.risk_percent_for_pricing = Some(shown),
                              !.premium_breakdown = Some(premium_breakdown)])
    /\ priceCalls' = priceCalls + 1
    /\ pc' = "cr_returned"
    /\ UNCHANGED <<app, form, policy, df, ebm_prob, exc, ebmCalls, ngbCalls,
                   response, session, priceVars, renVars>>

\* calculate_risk, steps 6 and 7: the pricing probability, the premium, return
CR_Price ==
    /\ pc = "cr_price"
    /\ LET res  == result[1]
           prob == PricingProb(res)
           risk_percent_for_pricing == prob * 10
       IN  \E shown \in RoundUnits(risk_percent_for_pricing, 10) :
           \E premium_breakdown \in calculate_final_premium(
                   DictGet(policy[1], "base_premium", 45000),
                   risk_percent_for_pricing,
                   DictGet(policy[1], "ncb_percentage", 0),
                   DictGet(policy[1], "other_discount", 0)) :
              result' = Some([res EXCEPT
                              !.pricing_model_used = Some(PricingModelUsed(res)),
                              !.pricing_probability = Some(prob),
                              !.risk_percent_for_pricing = Some(shown),
                              !.premium_breakdown = Some(premium_breakdown)])
    /\ priceCalls' = priceCalls + 1
    /\ pc' = "cr_returned"
    /\ UNCHANGED <<app, form, policy, df, ebm_prob, exc, ebmCalls, ngbCalls,
                   response, session, priceVars, renVars>>

calculate_risk ==
    \/ CR_Derive
    \/ CR_ScoreEBM
    \/ CR_ScoreEBMRaises
    \/ CR_ScoreNGB
    \/ CR_ScoreNGBRaises
    \/ CR_Price

-----------------------------------------------------------------------------
(* Callers of calculate_risk *)

EmptyDict == [k \in {} |-> 0]

\* {key: value}, or {} when the caller leaves the key out (value None)
Entry(key, value) == IF value = None THEN EmptyDict ELSE (key :> value[1])

ResetCall ==
    /\ df' = None
    /\ ebm_prob' = None
    /\ result' = None
    /\ exc' = None
    /\ ebmCalls' = 0
    /\ ngbCalls' = 0
    /\ priceCalls' = 0

\* The blacklist gate.  Customer ids as typed, and their normal forms.
CustomerIds == {"", "C100", "BLK001", " blk001 "}
Blacklist == {"BLK001"}

Strip(id) == IF id = " blk001 " THEN "blk001" ELSE id
Upper(id) == IF id = "blk001" THEN "BLK001" ELSE id

\* is_blacklisted(customer_id): case-insensitive, whitespace-trimmed set
\* membership; an empty id is never blacklisted.
is_blacklisted(customer_id) ==
    /\ Strip(customer_id) # ""
    /\ Upper(Strip(customer_id)) \in Blacklist

(* A direct caller, as the example run of risk_engine.py: any dict, possibly
   lacking keys or carrying band keys of its own. *)
DirectPolicies ==
    { Entry("driver_age", da) @@ Entry("vehicle_age_years", va)
        @@ Entry("driver_gender", g) @@ Entry("ncb_percentage", ncb)
        @@ Entry("base_premium", bp) @@ Entry("other_discount", od)
        @@ Entry("driver_age_band", band) :
        da \in {None, Some(24), Some(25)},
        va \in {None, Some(3), Some(13)},
        g \in {None, Some("Male")},
        ncb \in {None, Some(70)},
        bp \in {None, Some(140825)},
        od \in {None, Some(12345)},
        band \in {None, Some("60+")} }

DirectCall ==
    /\ app = "direct"
    /\ pc = "idle"
    /\ \E d \in DirectPolicies : policy' = Some(d)
    /\ ResetCall
    /\ response' = [kind |-> "none"]
    /\ pc' = "cr_derive"
    /\ UNCHANGED <<app, form, session, priceVars, renVars>>

DirectReturned ==
    /\ app = "direct"
    /\ pc = "cr_returned"
    /\ response' = [kind |-> "returned", result |-> result[1]]
    /\ pc' = "idle"
    /\ UNCHANGED <<app, form, policy, callVars, session, priceVars, renVars>>

DirectRaised ==
    /\ app = "direct"
    /\ pc = "cr_raised"
    /\ response' = [kind |-> "exception", error |-> exc[1]]
    /\ pc' = "idle"
    /\ UNCHANGED <<app, form, policy, callVars, session, priceVars, renVars>>

-----------------------------------------------------------------------------
(* app_flask.py: POST /calculate *)

\* clamp_int / clamp_float: a field that is absent or not a number (None)
\* gives the default
clamp(x, lo, hi, default) == IF x = None THEN default ELSE Max(lo, Min(hi, x[1]))

FlaskForms ==
    [full_name_ok      : BOOLEAN,          \* len(full_name.strip()) >= 3
     nic_ok            : BOOLEAN,          \* is_valid_nic(nic)
     customer_id       : CustomerIds,
     driver_age        : {None, Some(17), Some(25), Some(95)},
     vehicle_age_years : {None, Some(3)},
     ncb_percentage    : {Some(0), Some(70)},
     base_premium      : {None, Some(45000)},
     other_discount    : {None}]

FlaskErrors_NoBlacklist(f) ==
    (IF f.full_name_ok THEN {} ELSE {"full_name"})
      \cup (IF f.nic_ok THEN {} ELSE {"nic"})
      \cup (IF clamp(f.base_premium, 0, 1000000000, 0) <= 0 THEN {"base_premium"} ELSE {})

\* the keys of `errors` after validation (lines 45-50 and 89-90)
FlaskErrors(f) ==
    (IF f.full_name_ok THEN {} ELSE {"full_name"})
      \cup (IF f.nic_ok THEN {} ELSE {"nic"})
      \cup (IF Strip(f.customer_id) # "" /\ is_blacklisted(Strip(f.customer_id))
            THEN {"customer_id"} ELSE {})
      \cup (IF clamp(f.base_premium, 0, 1000000000, 0) <= 0 THEN {"base_premium"} ELSE {})

\* input_policy (lines 60-83)
FlaskPolicy(f) ==
    [driver_age        |-> clamp(f.driver_age, 18, 90, 35),
     driver_gender     |-> "Male",
     ncb_percentage    |-> clamp(f.ncb_percentage, 0, 70, 0),
     vehicle_age_years |-> clamp(f.vehicle_age_years, 0, 60, 8),
     customer_id       |-> Strip(f.customer_id)]

\* render_template("register.html", errors=..., result=..., premium=...)
Page(errors, res, premium) ==
    [kind |-> "page", errors |-> errors, result |-> res, premium |-> premium]

\* calculate(), up to the call of calculate_risk
FlaskCalculate ==
    /\ app = "flask"
    /\ pc = "idle"
    /\ \E f \in FlaskForms :
          /\ form' = Some(f)
          /\ IF FlaskErrors(f) # {}
             THEN /\ response' = Page(FlaskErrors(f), None, None)
                  /\ policy' = None
                  /\ pc' = "idle"
             ELSE /\ response' = [kind |-> "none"]
                  /\ policy' = Some(FlaskPolicy(f))
                  /\ pc' = "cr_derive"
    /\ ResetCall
    /\ UNCHANGED <<app, session, priceVars, renVars>>

\* except Exception as e: the error page
FlaskRiskRaised ==
    /\ app = "flask"
    /\ pc = "cr_raised"
    /\ response' = Page({"model"}, None, None)
    /\ pc' = "idle"
    /\ UNCHANGED <<app, form, policy, callVars, session, priceVars, renVars>>

\* calculate(), after calculate_risk returned (lines 103-122); reading a key
\* the result dict lacks raises KeyError, which nothing catches
FlaskRiskReturned ==
    /\ app = "flask"
    /\ pc = "cr_returned"
    /\ IF "risk_probability" \in DOMAIN result[1]
       THEN /\ \E premium \in calculate_final_premium(
                      clamp(form[1].base_premium, 0, 1000000000, 0),
                      result[1].risk_probability * 10,
                      policy[1].ncb_percentage,
                      clamp(form[1].other_discount, 0, 1000000000, 0)) :
                  response' = Page({}, Some(result[1]), Some(premium))
            /\ priceCalls' = priceCalls + 1
       ELSE /\ response' = [kind |-> "exception", error |-> "KeyError: risk_probability"]
            /\ priceCalls' = priceCalls
    /\ pc' = "idle"
    /\ UNCHANGED <<app, form, policy, df, ebm_prob, result, exc, ebmCalls, ngbCalls,
                   session, priceVars, renVars>>

-----------------------------------------------------------------------------
(* app.py: one run of the Streamlit script *)

StreamlitInputs ==
    [customer_id : CustomerIds, driver_age : {25, 60}, ncb_percentage : {0}]

\* input_policy (lines 191-211)
StreamlitPolicy(i) ==
    [driver_age        |-> i.driver_age,
     driver_gender     |-> "Male",
     ncb_percentage    |-> i.ncb_percentage,
     vehicle_age_years |-> 8,
     customer_id       |-> Strip(i.customer_id)]

\* The results section (lines 227-270) for a session state
Render(st) ==
    IF st.blacklisted
    THEN [kind |-> "blacklisted"]
    ELSE IF st.result # None
    THEN (IF {"risk_probability", "ebm_probability", "ngboost_probability"}
                \subseteq DOMAIN st.result[1]
          THEN [kind |-> "result", result |-> st.result[1]]
          ELSE [kind |-> "exception", error |-> "KeyError: risk_probability"])
    ELSE [kind |-> "info"]

\* if submit: (lines 190-219), up to the call of calculate_risk
StreamlitSubmit ==
    /\ app = "streamlit"
    /\ pc = "idle"
    /\ \E i \in StreamlitInputs :
          /\ policy' = Some(StreamlitPolicy(i))
          /\ IF is_blacklisted(i.customer_id)
             THEN /\ session' = [result |-> None, blacklisted |-> TRUE]
                  /\ response' = Render(session')
                  /\ pc' = "idle"
             ELSE /\ session' = [session EXCEPT !.blacklisted = FALSE]
                  /\ response' = [kind |-> "none"]
                  /\ pc' = "cr_derive"
    /\ ResetCall
    /\ UNCHANGED <<app, form, priceVars, renVars>>

\* st.session_state.result = calculate_risk(input_policy), then the results
StreamlitRiskReturned ==
    /\ app = "streamlit"
    /\ pc = "cr_returned"
    /\ session' = [session EXCEPT !.result = Some(result[1])]
    /\ response' = Render(session')
    /\ pc' = "idle"
    /\ UNCHANGED <<app, form, policy, callVars, priceVars, renVars>>

\* calculate_risk raised: the script run stops, the session state stays
StreamlitRiskRaised ==
    /\ app = "streamlit"
    /\ pc = "cr_raised"
    /\ response' = [kind |-> "exception", error |-> exc[1]]
    /\ pc' = "idle"
    /\ UNCHANGED <<app, form, policy, callVars, session, priceVars, renVars>>

\* a run of the script without submit: only the results section
StreamlitRerun ==
    /\ app = "streamlit"
    /\ pc = "idle"
    /\ response' = Render(session)
    /\ UNCHANGED <<app, pc, form, policy, callVars, session, priceVars, renVars>>

-----------------------------------------------------------------------------

Init ==
    /\ app \in {"direct", "flask", "streamlit"}
    /\ pc = "idle"
    /\ form = None
    /\ policy = None
    /\ df = None
    /\ ebm_prob = None
    /\ result = None
    /\ exc = None
    /\ ebmCalls = 0
    /\ ngbCalls = 0
    /\ priceCalls = 0
    /\ response = [kind |-> "none"]
    /\ session = NoSession
    /\ PriceIdle
    /\ RenewalIdle

Next ==
    \/ DirectCall
    \/ DirectReturned
    \/ DirectRaised
    \/ FlaskCalculate
    \/ FlaskRiskRaised
    \/ FlaskRiskReturned
    \/ StreamlitSubmit
    \/ StreamlitRiskReturned
    \/ StreamlitRiskRaised
    \/ StreamlitRerun
    \/ calculate_risk

Spec == Init /\ [][Next]_vars

-----------------------------------------------------------------------------
(* The feature deriver on its own: step 1 and 2 of calculate_risk applied to
   every age the front ends can submit. *)

\* The ranges of the age inputs of the two front ends
MIN_DRIVER_AGE == 18
MAX_DRIVER_AGE == 90
MAX_VEHICLE_AGE == 60

DriverAges == MIN_DRIVER_AGE..MAX_DRIVER_AGE
VehicleAges == 0..MAX_VEHICLE_AGE

BandPolicies ==
    { Entry("driver_age", da) @@ Entry("vehicle_age_years", va)
        @@ Entry("driver_age_band", band) :
        da \in {None} \cup {Some(a) : a \in DriverAges},
        va \in {None} \cup {Some(v) : v \in VehicleAges},
        band \in {None, Some("60+")} }

BandInit ==
    /\ app = "direct"
    /\ pc = "cr_derive"
    /\ form = None
    /\ policy \in {Some(d) : d \in BandPolicies}
    /\ df = None
    /\ ebm_prob = None
    /\ result = None
    /\ exc = None
    /\ ebmCalls = 0
    /\ ngbCalls = 0
    /\ priceCalls = 0
    /\ response = [kind |-> "none"]
    /\ session = NoSession
    /\ PriceIdle
    /\ RenewalIdle

BandNext == CR_Derive

BandSpec == BandInit /\ [][BandNext]_vars

-----------------------------------------------------------------------------
(* Properties of premium_rules.calculate_final_premium, under PriceSpec *)

PriceReturned == priceOut # None

\* `out` is a result of rounding w + f/den to the nearest integer.
IsNearest(out, w, f, den) ==
    \/ 2 * f < den /\ out = w
    \/ 2 * f > den /\ out = w + 1
    \/ 2 * f = den /\ out \in {w, w + 1}

\* Exact (n * (1 + rateE4/10000) + fee) * pct / 100, as whole cents w and a
\* remainder f in units of 1e-6 cent.
FeesClosedForm(n, rateE4, fee, pct) ==
    LET x   == MulRate(n, 10000 + rateE4, 10000)
        y   == MulRate(x.w + fee, pct, 100)
        num == y.f * 10000 + x.f * pct
    IN  [w |-> y.w + (num \div 1000000), f |-> num % 1000000]

\* C7: the reported net premium is never negative; it is
\* max(base_premium + loading_amount - total_discount, 0), also when the
\* discounts exceed base premium plus loading.
C7_NetPremiumFloored ==
    PriceReturned =>
        LET o     == priceOut[1]
            gross == o.base_premium + o.risk_loading_amount
            disc  == o.ncb_discount + priceArgs.other_discount
        IN  /\ o.net_premium >= 0
            /\ gross - disc >= 0 => o.net_premium = gross - disc
            /\ gross - disc < 0 => o.net_premium = 0

C7_Witness ==
    /\ PriceReturned
    /\ priceArgs.base_premium > 0
    /\ priceOut[1].ncb_discount + priceArgs.other_discount
         > priceOut[1].base_premium + priceOut[1].risk_loading_amount
    /\ priceOut[1].net_premium = 0

\* C9: the returned breakdown follows the composition chain: loading_amount =
\* base x loading_pct, ncb_discount = base x ncb/100, net = max(base + loading
\* - (ncb_discount + other_discount), 0), admin_fee = net x 0.0291,
\* vat_amount = (net + admin_fee + 200) x 0.18 and total_payable =
\* (net + admin_fee + 200) x 1.18, each computed unrounded and rounded to 2
\* decimals at output; price(10, 45000, 0, 0) gives admin_fee 1309.50,
\* vat_amount 8371.71 and total_payable 54881.21.
C9_CompositionChain ==
    PriceReturned =>
        LET o   == priceOut[1]
            a   == priceArgs
            net == o.net_premium
            fee == MulRate(net, 291, 10000)
            vat == FeesClosedForm(net, 291, 20000, 18)
            tot == FeesClosedForm(net, 291, 20000, 118)
        IN  /\ o.base_premium = a.base_premium * 100
            /\ o.risk_loading_amount * 100 = o.base_premium * o.risk_loading_percent
            /\ o.ncb_discount * 100 = o.base_premium * a.ncb_percentage
            /\ net = Max(o.base_premium + o.risk_loading_amount
                           - (o.ncb_discount + a.other_discount), 0)
            /\ IsNearest(o.admin_fee, fee.w, fee.f, 10000)
            /\ o.policy_fee = 20000
            /\ IsNearest(o.vat_amount, vat.w, vat.f, 1000000)
            /\ IsNearest(o.total_payable, tot.w, tot.f, 1000000)
            /\ (a.base_premium = 45000 /\ a.risk_percent = 10000
                  /\ a.ncb_percentage = 0 /\ a.other_discount = 0)
               => /\ o.admin_fee = 130950
                  /\ o.vat_amount = 837171
                  /\ o.total_payable = 5488121

C9_Witness ==
    /\ PriceReturned
    /\ priceArgs = [base_premium |-> 45000, risk_percent |-> 10000,
                    ncb_percentage |-> 0, other_discount |-> 0]
    /\ priceOut[1].total_payable = 5488121

\* C10: the risk loading is a four-band step function of risk percent (below
\* 15: 0 %, 15 to below 25: 10 %, 25 to below 40: 25 %, 40 and above: 50 %),
\* non-decreasing in risk percent; risk 54.36 with base premium 140825 and NCB
\* 70 gives loading 50 %, loading amount 70412.50, NCB discount 98577.50 and
\* net premium 112660.00.
C10_LoadingBands ==
    /\ \A r1, r2 \in RiskPercents :
           r1 <= r2 => get_risk_loading_percent(r1) <= get_risk_loading_percent(r2)
    /\ PriceReturned =>
        LET o  == priceOut[1]
            a  == priceArgs
            rp == a.risk_percent
        IN  /\ o.risk_loading_percent \in {0, 10, 25, 50}
            /\ o.risk_loading_percent = 0  <=> rp < 15000
            /\ o.risk_loading_percent = 10 <=> (15000 <= rp /\ rp < 25000)
            /\ o.risk_loading_percent = 25 <=> (25000 <= rp /\ rp < 40000)
            /\ o.risk_loading_percent = 50 <=> rp >= 40000
            /\ (a.base_premium = 140825 /\ rp = 54360 /\ a.ncb_percentage = 70
                  /\ a.other_discount = 0)
               => /\ o.risk_loading_percent = 50
                  /\ o.risk_loading_amount = 7041250
                  /\ o.ncb_discount = 9857750
                  /\ o.net_premium = 11266000

C10_Witness ==
    /\ PriceReturned
    /\ priceArgs = [base_premium |-> 140825, risk_percent |-> 54360,
                    ncb_percentage |-> 70, other_discount |-> 0]
    /\ priceOut[1].net_premium = 11266000

-----------------------------------------------------------------------------
(* Properties of the renewal pricing variant, under RenewalSpec *)

\* C8: in the renewal variant the net premium is floored at zero, so that for
\* every sum insured, expected claim and NCB rate the admin fee, the VAT and
\* the total premium are never negative (total premium >= policy fee x 1.18).
\* Stated here for the inputs a form would plausibly carry: a sum insured >= 0
\* and an NCB rate between 0 and 1.
C8_RenewalNeverNegative ==
    (/\ renOut.kind = "result"
     /\ FormFloat(renForm.sum_insured) >= 0
     /\ FormFloat(renForm.ncb_rate) \in 0..1000) =>
        LET d == renOut.premium_breakdown
        IN  /\ d.admin_fee >= 0
            /\ d.vat >= 0
            /\ d.total_premium >= 23600

-----------------------------------------------------------------------------
(* Properties of the risk evaluation and of its callers, under Spec *)

Returned_ == pc = "cr_returned"

\* C1: the secondary model is invoked only when the primary probability is
\* >= EBM_ESCALATE_THRESHOLD; below the threshold it is never called in that
\* evaluation and the result's secondary probability and uncertainty are None.
C1_EscalationOnlyAtThreshold ==
    /\ ngbCalls > 0 => (ebm_prob # None /\ ebm_prob[1] >= 15500)
    /\ (ebm_prob # None /\ ebm_prob[1] < 15500) =>
          /\ ngbCalls = 0
          /\ pc # "cr_ngb"
          /\ result # None =>
                /\ result[1].ngboost_risk_probability = None
                /\ result[1].ngboost_uncertainty = None

C1_Witness ==
    /\ Returned_
    /\ ebm_prob = Some(15499)
    /\ ebmCalls = 1
    /\ ngbCalls = 0
    /\ result[1].ngboost_risk_probability = None
    /\ result[1].ngboost_uncertainty = None

\* C2: the primary probability p_e decides exactly one of three outcomes by
\* the thresholds T_escalate < T_high: p_e < T_escalate gives LOW without
\* escalation, T_escalate <= p_e < T_high gives MEDIUM with escalation,
\* p_e >= T_high gives HIGH with escalation; the escalation flag is true
\* exactly when the label is not LOW.
C2_ThreeOutcomes ==
    /\ EBM_ESCALATE_THRESHOLD < EBM_HIGH_THRESHOLD
    /\ result # None =>
        LET p == ebm_prob[1]
            r == result[1]
        IN  /\ p < 15500 => (r.risk_label = "LOW" /\ ~r.escalate_to_ngboost)
            /\ (15500 <= p /\ p < 20000) =>
                   (r.risk_label = "MEDIUM" /\ r.escalate_to_ngboost)
            /\ p >= 20000 => (r.risk_label = "HIGH" /\ r.escalate_to_ngboost)
            /\ r.escalate_to_ngboost <=> r.risk_label # "LOW"

C2_Witness ==
    /\ Returned_
    /\ ebm_prob = Some(19999)
    /\ result[1].risk_label = "MEDIUM"
    /\ result[1].escalate_to_ngboost

\* The label the two thresholds give a probability in units of 1e-4.
LabelOfFinal(p4) ==
    IF p4 * 10 >= 20000 THEN "HIGH" ELSE IF p4 * 10 >= 15500 THEN "MEDIUM" ELSE "LOW"

\* C3 as stated: the returned label is recomputed from the final reconciled
\* probability (the one used for pricing) with the same two thresholds, also
\* when the secondary probability differs from the primary one.  Stated for
\* the evaluations that escalated, where the secondary probability is priced.
C3_LabelFromFinalProbability ==
    (Returned_ /\ result[1].pricing_model_used = Some("NGBoost")) =>
        result[1].risk_label = LabelOfFinal(result[1].pricing_probability[1])

\* C3 as amended: the returned label is the one the two thresholds give the
\* primary probability, whatever the probability used for pricing is: it
\* stays MEDIUM or HIGH when the secondary probability that is priced lies
\* below T_escalate, and is never recomputed after reconciliation.
C3_LabelFromPrimaryProbability ==
    Returned_ =>
        LET p == ebm_prob[1]
            r == result[1]
        IN  /\ r.risk_label = "LOW" <=> p < 15500
            /\ r.risk_label = "MEDIUM" <=> (15500 <= p /\ p < 20000)
            /\ r.risk_label = "HIGH" <=> p >= 20000
            /\ r.pricing_model_used = Some("NGBoost") => r.risk_label \in {"MEDIUM", "HIGH"}

C3_Witness ==
    /\ Returned_
    /\ result[1].risk_label = "HIGH"
    /\ result[1].pricing_model_used = Some("NGBoost")
    /\ result[1].pricing_probability = Some(500)
    /\ LabelOfFinal(result[1].pricing_probability[1]) = "LOW"

\* The customer ids of the model that the blacklist holds, as typed.
BlacklistedAsTyped == {"BLK001", " blk001 ", "blk001"}

BlacklistedRequest ==
    \/ app = "flask" /\ form # None /\ form[1].customer_id \in BlacklistedAsTyped
    \/ app = "streamlit" /\ policy # None /\ policy[1].customer_id \in BlacklistedAsTyped

\* C4: a request whose customer id is in the blacklist is answered by the
\* front-end handlers with a blacklisted rejection; calculate_risk (hence
\* either model) and calculate_final_premium are not called for it, and no
\* risk result and no premium are produced.
C4_BlacklistShortCircuit ==
    BlacklistedRequest =>
        /\ pc = "idle"
        /\ ebmCalls = 0 /\ ngbCalls = 0 /\ priceCalls = 0
        /\ result = None
        /\ app = "flask" =>
              /\ response.kind = "page"
              /\ "customer_id" \in response.errors
              /\ response.result = None
              /\ response.premium = None
        /\ app = "streamlit" =>
              /\ response.kind = "blacklisted"
              /\ session.blacklisted
              /\ session.result = None

C4_Witness ==
    /\ app = "flask"
    /\ form # None
    /\ form[1].customer_id = " blk001 "
    /\ form[1].full_name_ok /\ form[1].nic_ok /\ form[1].base_premium = Some(45000)
    /\ response = [kind |-> "page", errors |-> {"customer_id"},
                   result |-> None, premium |-> None]

LacksBandInput ==
    /\ policy # None
    /\ pc # "cr_derive"
    /\ {"driver_age", "vehicle_age_years"} \ DOMAIN policy[1] # {}

\* C5: a policy that lacks driver_age (or vehicle_age_years) makes
\* calculate_risk fail with a missing-required-field error raised in feature
\* derivation, before either model is invoked and before any premium is
\* computed.
C5_MissingFieldBeforeModels ==
    LacksBandInput =>
        /\ exc = Some(IF "driver_age" \notin DOMAIN policy[1]
                      THEN "Missing required field: driver_age"
                      ELSE "Missing required field: vehicle_age_years")
        /\ ebmCalls = 0 /\ ngbCalls = 0 /\ priceCalls = 0
        /\ result = None
        /\ pc \in {"cr_raised", "idle"}
        /\ pc = "idle" => (response.kind = "exception" /\ response.error = exc[1])

C5_Witness ==
    /\ app = "direct"
    /\ pc = "idle"
    /\ policy # None
    /\ "driver_age" \notin DOMAIN policy[1]
    /\ "vehicle_age_years" \in DOMAIN policy[1]
    /\ response = [kind |-> "exception", error |-> "Missing required field: driver_age"]

\* C6: an evaluation is all or nothing.  When a step fails (feature
\* derivation, primary scoring, secondary scoring) calculate_risk raises, no
\* result and no premium exist and the caller receives an error without
\* result or premium; when calculate_risk returns, the result carries the
\* risk assessment and a non-null premium breakdown.  No model is called
\* twice and no probability is made up for a model that failed.
C6_AllOrNothing ==
    /\ ebmCalls <= 1 /\ ngbCalls <= 1
    /\ pc = "cr_raised" =>
          /\ exc # None
          /\ result = None
          /\ priceCalls = 0
    /\ Returned_ =>
          /\ exc = None
          /\ ebmCalls = 1
          /\ priceCalls = 1
          /\ result # None
          /\ result[1].risk_label \in {"LOW", "MEDIUM", "HIGH"}
          /\ result[1].ebm_risk_probability \in RoundUnits(ebm_prob[1], 10)
          /\ result[1].escalate_to_ngboost =>
                (ngbCalls = 1 /\ result[1].ngboost_risk_probability # None)
          /\ result[1].pricing_probability # None
          /\ result[1].premium_breakdown # None
    /\ (exc # None /\ pc = "idle" /\ app = "direct") =>
          response = [kind |-> "exception", error |-> exc[1]]
    /\ (exc # None /\ pc = "idle" /\ app = "flask") =>
          /\ response.kind = "page"
          /\ response.errors = {"model"}
          /\ response.result = None
          /\ response.premium = None

C6_Witness ==
    /\ app = "flask"
    /\ pc = "idle"
    /\ exc = Some("secondary model raised")
    /\ ebmCalls = 1 /\ ngbCalls = 1 /\ priceCalls = 0
    /\ response = [kind |-> "page", errors |-> {"model"},
                   result |-> None, premium |-> None]

-----------------------------------------------------------------------------
(* Properties of the feature deriver, under BandSpec *)

Derived == pc = "cr_ebm" /\ df # None

\* The bins of make_driver_age_band, in order, with the ages of each
DriverAgeBins ==
    << [name |-> "18_24", from |-> 18, upto |-> 24],
       [name |-> "25_34", from |-> 25, upto |-> 34],
       [name |-> "35_44", from |-> 35, upto |-> 44],
       [name |-> "45_59", from |-> 45, upto |-> 59],
       [name |-> "60+",   from |-> 60, upto |-> 89] >>

BinIndex(name) == CHOOSE i \in 1..Len(DriverAgeBins) : DriverAgeBins[i].name = name

\* C11: for every driver age in [18, 90) the derived driver_age_band is the
\* one bin, of five contiguous and non-overlapping bins 18-24, 25-34, 35-44,
\* 45-59 and 60+, whose range holds the age, so that 25, 35, 45 and 60 fall
\* into the higher bin; and the bin never goes down when the age goes up.
C11_DriverAgeBand ==
    /\ \A i \in 1..(Len(DriverAgeBins) - 1) :
          DriverAgeBins[i + 1].from = DriverAgeBins[i].upto + 1
    /\ (Derived /\ df[1]["driver_age"] < MAX_DRIVER_AGE) =>
          LET a == df[1]["driver_age"]
              band == df[1]["driver_age_band"]
          IN  /\ \E i \in 1..Len(DriverAgeBins) :
                    /\ band = DriverAgeBins[i].name
                    /\ a \in DriverAgeBins[i].from..DriverAgeBins[i].upto
              /\ \A i \in 1..Len(DriverAgeBins) :
                    band = DriverAgeBins[i].name =>
                       a \in DriverAgeBins[i].from..DriverAgeBins[i].upto
              /\ \A b \in MIN_DRIVER_AGE..a :
                    BinIndex(make_driver_age_band(b)) <= BinIndex(band)
              /\ a \in {25, 35, 45, 60} =>
                    band # make_driver_age_band(a - 1)

C11_Witness ==
    /\ Derived
    /\ df[1]["driver_age"] = 25
    /\ df[1]["driver_age_band"] = "25_34"
    /\ policy[1]["driver_age"] = 25

-----------------------------------------------------------------------------
(* Properties of the result of calculate_risk and its readers, under Spec *)

RiskAssessmentFields ==
    {"risk_probability", "risk_label", "ebm_probability", "ngboost_probability",
     "driver_age_band", "vehicle_age_band", "escalate_to_ngboost"}

\* The front end has handled a successful evaluation
FrontEndHandled ==
    /\ app \in {"flask", "streamlit"}
    /\ pc = "idle"
    /\ result # None
    /\ exc = None

\* C12: every result returned by calculate_risk has the fields
\* risk_probability, risk_label, ebm_probability, ngboost_probability,
\* driver_age_band, vehicle_age_band and escalate_to_ngboost, and so no front
\* end fails on reading one of them after a successful evaluation.
C12_ResultFields ==
    /\ Returned_ => RiskAssessmentFields \subseteq DOMAIN result[1]
    /\ FrontEndHandled => response.kind # "exception"

-----------------------------------------------------------------------------
(* The field set of the breakdown, under PriceSpec *)

PremiumBreakdownFields ==
    {"base_premium", "risk_percent", "risk_loading_percent",
     "risk_loading_amount", "ncb_percentage", "ncb_discount", "other_discount",
     "total_discount", "net_premium_before_fees", "admin_fee_rate_percent",
     "admin_fee", "policy_fee", "premium_before_vat", "vat_rate_percent",
     "vat_amount", "total_payable"}

\* C13: every breakdown returned by calculate_final_premium has exactly the
\* sixteen named fields base_premium, risk_percent, risk_loading_percent,
\* risk_loading_amount, ncb_percentage, ncb_discount, other_discount,
\* total_discount, net_premium_before_fees, admin_fee_rate_percent, admin_fee,
\* policy_fee, premium_before_vat, vat_rate_percent, vat_amount, total_payable.
\* (Stated for the calls with a base premium of zero or more.)
C13_BreakdownFields ==
    (PriceReturned /\ priceArgs.base_premium >= 0) =>
        DOMAIN priceOut[1] = PremiumBreakdownFields

-----------------------------------------------------------------------------
(* Reconciliation of the two probabilities, under Spec *)

\* C14: the probability used for pricing is the secondary model's whenever the
\* evaluation escalated and the primary model's otherwise (both as reported,
\* to four decimals); pricing_model_used is "NGBoost" exactly when
\* escalate_to_ngboost is true and "EBM" exactly when it is false; and
\* risk_percent_for_pricing is 100 times the pricing probability.
C14_SecondaryAlwaysUsed ==
    Returned_ =>
        LET res == result[1]
        IN  /\ res.escalate_to_ngboost =>
                  /\ res.ngboost_risk_probability # None
                  /\ res.pricing_probability = res.ngboost_risk_probability
            /\ ~res.escalate_to_ngboost =>
                  /\ res.ngboost_risk_probability = None
                  /\ res.pricing_probability = Some(res.ebm_risk_probability)
                  /\ res.pricing_probability[1] \in RoundUnits(ebm_prob[1], 10)
            /\ res.pricing_model_used \in {Some("NGBoost"), Some("EBM")}
            /\ res.pricing_model_used = Some("NGBoost") <=> res.escalate_to_ngboost
            /\ res.pricing_model_used = Some("EBM") <=> ~res.escalate_to_ngboost
            \* percent in units of 1e-2, probability in units of 1e-4:
            \* percent / 100 = 100 * (probability / 10000)
            /\ res.risk_percent_for_pricing # None
            /\ res.risk_percent_for_pricing[1] * 100 = 100 * res.pricing_probability[1]
            /\ res.premium_breakdown[1].risk_loading_percent =
                  get_risk_loading_percent(res.pricing_probability[1] * 10)

\* An escalated evaluation whose secondary probability is below the primary one
C14_Witness ==
    /\ Returned_
    /\ result[1].escalate_to_ngboost
    /\ result[1].ebm_risk_probability = 5436
    /\ result[1].ngboost_risk_probability = Some(500)
    /\ result[1].pricing_probability = Some(500)
    /\ result[1].pricing_model_used = Some("NGBoost")
    /\ result[1].risk_percent_for_pricing = Some(500)

-----------------------------------------------------------------------------
(* The caller's record during an evaluation, under Spec *)

InCall == pc \in {"cr_derive", "cr_ebm", "cr_ngb", "cr_price", "cr_returned", "cr_raised"}

BandKeys == {"driver_age_band", "vehicle_age_band"}

\* C15: from the call of calculate_risk to its return or its exception, no
\* step changes the caller's policy dict (same keys, same values); the frame
\* made from it carries the caller's other columns as given and the two bands
\* as the deriver computes them from the ages, and so does the result, also
\* when the caller supplied a band of its own.
C15_CallerRecordUntouched ==
    [][ /\ InCall => policy' = policy
        /\ (pc = "cr_derive" /\ pc' = "cr_ebm") =>
              /\ DOMAIN df'[1] = DOMAIN policy'[1] \cup BandKeys
              /\ \A k \in DOMAIN policy'[1] \ BandKeys : df'[1][k] = policy'[1][k]
              /\ df'[1]["driver_age_band"] =
                    make_driver_age_band(policy'[1]["driver_age"])
              /\ df'[1]["vehicle_age_band"] =
                    make_vehicle_age_band(policy'[1]["vehicle_age_years"])
        /\ pc' = "cr_returned" =>
              /\ result'[1].driver_age_band =
                    make_driver_age_band(policy'[1]["driver_age"])
              /\ result'[1].vehicle_age_band =
                    make_vehicle_age_band(policy'[1]["vehicle_age_years"])
      ]_vars

\* The caller supplied a band that differs from the derived one, and still
\* holds it after the evaluation returned
C15_Witness ==
    /\ Returned_
    /\ "driver_age_band" \in DOMAIN policy[1]
    /\ "vehicle_age_band" \notin DOMAIN policy[1]
    /\ policy[1]["driver_age"] = 24
    /\ policy[1]["driver_age_band"] = "60+"
    /\ df[1]["driver_age_band"] = "18_24"
    /\ result[1].driver_age_band = "18_24"

-----------------------------------------------------------------------------
(* total_payable as a function of risk_percent, under PriceSpec *)

\* The breakdowns of the same call at the risk percent r
AtRisk(r) ==
    calculate_final_premium(priceArgs.base_premium, r,
                            priceArgs.ncb_percentage, priceArgs.other_discount)

\* C16: with base_premium >= 0, ncb_percentage and other_discount fixed, a
\* lower risk_percent never gives a higher total_payable (where both calls
\* compute the same net premium they compute the same total); and every
\* total_payable is at least policy_fee x (1 + vat_rate) = 236.00.
C16_MonotoneInRisk ==
    PriceReturned =>
        LET o == priceOut[1]
        IN  /\ POLICY_FEE_CENTS * (100 + VAT_RATE_PCT) = 23600 * 100
            /\ o.total_payable >= 23600
            /\ priceArgs.base_premium >= 0 =>
                  \A r \in RiskPercents : r <= priceArgs.risk_percent =>
                     \A lo \in AtRisk(r) :
                        /\ lo.risk_loading_percent <= o.risk_loading_percent
                        /\ lo.net_premium <= o.net_premium
                        /\ IF lo.net_premium = o.net_premium
                           THEN \E same \in AtRisk(r) :
                                   same.total_payable = o.total_payable
                           ELSE lo.total_payable <= o.total_payable

\* A call whose total is strictly above the total of the same call at risk 0
C16_Witness ==
    /\ PriceReturned
    /\ priceArgs.base_premium = 140825
    /\ priceArgs.risk_percent = 54360
    /\ priceArgs.ncb_percentage = 70
    /\ priceOut[1].risk_loading_percent = 50
    /\ \A lo \in AtRisk(14999) : lo.total_payable < priceOut[1].total_payable
    /\ \A lo \in AtRisk(25000) : lo.total_payable < priceOut[1].total_payable

=============================================================================
